---- MODULE Spec2Model ----
(***************************************************************************)
(* Yeast-cell detection: the post-processing of detect.py (score filter    *)
(* and greedy non-maximum suppression), the batch loop of its main, and    *)
(* the small-cell enhancement of enhance/small_cell.py.                    *)
(*                                                                         *)
(* Arrays are functions over 0..N-1, as numpy indexes them; Python lists   *)
(* (keep, order) are sequences of such indices.  Box coordinates are small *)
(* integers, which float arithmetic represents exactly; a float quotient   *)
(* is the pair <<numerator, denominator>>, whose denominator may be 0.     *)
(***************************************************************************)
EXTENDS Integers, Sequences, FiniteSets, TLC

VARIABLES
    call,           \* which function was invoked: "nms" or "post_process"
    prediction,     \* post_process: the prediction tensor, its rows and width
    threshold,      \* post_process: the score threshold, in thousandths
    filtered,       \* post_process: filtered_boxes / _scores / _class_ids
    result,         \* post_process: the returned triple, or its exception
    boxes,          \* nms: boxes [N, 4]
    scores,         \* nms: scores [N], in thousandths
    iou_threshold,  \* nms: <<numerator, denominator>>
    order,          \* nms: indices still to process, best score first
    keep,           \* nms: indices kept so far
    pc,             \* position in post_process / nms
    run,            \* 1: the call itself, 2: nms run again on what it kept
    first,          \* the first run's boxes, scores and keep (for run 2)
    load_ok,        \* main: whether load_model returns (FALSE: it raises)
    image_paths,    \* main: what processing each image will come to
    main_pc,        \* main: position
    next_image,     \* main: index of the next image of the for loop
    results,        \* main: results, image name -> count
    log,            \* main: the failure messages printed, in order
    done_steps,     \* main: <<step, image>> for each step carried out
    summary,        \* main: what was written to detection_summary.json
    image,          \* enhance_small_cells: the caller's array
    image_at_call,  \* enhance_small_cells: the caller's array as it was passed
    cell_size_threshold, \* enhance_small_cells: <<numerator, denominator>>
    labels,         \* enhance_small_cells: label -> its pixels (label 0 the
                    \* background), from connectedComponentsWithStats
    small_labels,   \* enhance_small_cells: the labels the loop of line 43
                    \* found small and wrote into small_cells_mask
    small_cells_mask, \* enhance_small_cells: its non-zero pixels
    combined_mask,  \* enhance_small_cells: the non-zero pixels of combined_mask
    enhanced_img,   \* enhance_small_cells: the returned image
    enh_pc          \* enhance_small_cells: "call" or "returned"

nmsVars == <<call, prediction, threshold, filtered, result, boxes, scores,
             iou_threshold, order, keep, pc, run, first>>

mainVars == <<load_ok, image_paths, main_pc, next_image, results, log,
              done_steps, summary>>

enhVars == <<image, image_at_call, cell_size_threshold, labels, small_labels,
             small_cells_mask, combined_mask, enhanced_img, enh_pc>>

vars == <<nmsVars, mainVars, enhVars>>

----------------------------------------------------------------------------
(* Bounds of the model *)

MaxN == 3
MaxRows == 2
MaxImages == 3
MaxCells == 2
MaxDim == 3

----------------------------------------------------------------------------
(* Arrays *)

Arr(s) == [i \in 0 .. Len(s) - 1 |-> s[i + 1]]

Size(a) == Cardinality(DOMAIN a)

\* a[idx] with idx a list of indices (numpy fancy indexing)
Take(a, idx) == [k \in 0 .. Len(idx) - 1 |-> a[idx[k + 1]]]

Range(s) == {s[k] : k \in DOMAIN s}

Max2(a, b) == IF a >= b THEN a ELSE b

Min2(a, b) == IF a <= b THEN a ELSE b

----------------------------------------------------------------------------
(* Float quotients and comparisons.  n / 0 is nan for n = 0 and +-inf      *)
(* otherwise; every ordered comparison with nan is false.                  *)

IsNaN(q) == q[2] = 0 /\ q[1] = 0

\* q <= t, t a ratio with positive denominator
FloatLeq(q, t) ==
    IF IsNaN(q) THEN FALSE
    ELSE IF q[2] = 0 THEN q[1] < 0
    ELSE IF q[2] > 0 THEN q[1] * t[2] <= t[1] * q[2]
    ELSE q[1] * t[2] >= t[1] * q[2]

\* q > t
FloatGt(q, t) ==
    IF IsNaN(q) THEN FALSE
    ELSE IF q[2] = 0 THEN q[1] > 0
    ELSE IF q[2] > 0 THEN q[1] * t[2] > t[1] * q[2]
    ELSE q[1] * t[2] < t[1] * q[2]

----------------------------------------------------------------------------
(* nms, detect.py *)

\* areas = (x2 - x1) * (y2 - y1)
Area(b) == (b[3] - b[1]) * (b[4] - b[2])

\* inter = w * h, with w and h clamped at 0
Inter(a, b) ==
    LET xx1 == Max2(a[1], b[1])
        yy1 == Max2(a[2], b[2])
        xx2 == Min2(a[3], b[3])
        yy2 == Min2(a[4], b[4])
        w == Max2(0, xx2 - xx1)
        h == Max2(0, yy2 - yy1)
    IN  w * h

\* position (0-based) of index i in the stable ascending argsort of sc
AscRank(sc, i) ==
    Cardinality({j \in DOMAIN sc :
                    sc[j] < sc[i] \/ (sc[j] = sc[i] /\ j < i)})

\* an ordering bug: the [::-1] forgotten
AscendingArgsort(sc) ==
    [p \in 1 .. Size(sc) |-> CHOOSE i \in DOMAIN sc : AscRank(sc, i) = p - 1]

\* order = scores.argsort()[::-1]; numpy sorts arrays of at most 16 elements
\* by insertion, which is stable, so equal scores come out in descending
\* index order once reversed
ArgsortDesc(sc) ==
    [p \in 1 .. Size(sc) |->
        CHOOSE i \in DOMAIN sc : AscRank(sc, i) = Size(sc) - p]

\* a denominator bug: the selected box's area alone, not the union
IoUSelectedArea(a, b) == <<Inter(a, b), Area(a)>>

\* iou = inter / (areas[i] + areas[order[1:]] - inter)
IoU(a, b) == <<Inter(a, b), Area(a) + Area(b) - Inter(a, b)>>

\* a comparison bug: the test of line 177 turned around
SurvivorsFlipped(bx, ord, thr) ==
    LET i == ord[1]
        Stays(j) == ~ FloatLeq(IoU(bx[i], bx[j]), thr)
    IN  SelectSeq(Tail(ord), Stays)

\* an off-by-one bug: order = order[inds], the positions of the tail applied
\* to the whole of order
SurvivorsNoShift(bx, ord, thr) ==
    LET i == ord[1]
        rest == Tail(ord)
        inds == {p \in 1 .. Len(rest) : FloatLeq(IoU(bx[i], bx[rest[p]]), thr)}
        Chosen(p) == p \in inds
    IN  [q \in 1 .. Cardinality(inds) |->
            ord[SelectSeq([p \in 1 .. Len(rest) |-> p], Chosen)[q]]]

\* inds = np.where(iou <= iou_threshold)[0]; order = order[inds + 1]
Survivors(bx, ord, thr) ==
    LET i == ord[1]
        Stays(j) == FloatLeq(IoU(bx[i], bx[j]), thr)
    IN  SelectSeq(Tail(ord), Stays)

----------------------------------------------------------------------------
(* post_process, detect.py *)

\* torch.sigmoid on the logits the model draws, in thousandths;
\* sigmoid(0) is 0.5 exactly
Sigmoid(x) ==
    CASE x = -1 -> 269
      [] x = 0 -> 500
      [] x = 1 -> 731

\* np.argmax of one row of class logits: the first index of the maximum
ArgMax(v) ==
    CHOOSE k \in 0 .. Len(v) - 1 :
        /\ \A m \in 0 .. Len(v) - 1 : v[m + 1] <= v[k + 1]
        /\ \A m \in 0 .. k - 1 : v[m + 1] < v[k + 1]

\* a comparison bug: rows at the threshold let through
MaskGeq(sc, thr) == [r \in DOMAIN sc |-> sc[r] >= thr]

\* mask = scores > threshold
Mask(sc, thr) == [r \in DOMAIN sc |-> sc[r] > thr]

\* the indices a boolean mask selects, ascending (numpy boolean indexing)
Selected(mask) ==
    LET all == [k \in 1 .. Size(mask) |-> k - 1]
        On(r) == mask[r]
    IN  SelectSeq(all, On)

\* a boundary bug: >= 5 sends five-column rows to argmax
HasClassesGeq(width) == width >= 5

\* if prediction.shape[1] > 5
HasClasses(width) == width > 5

\* an indexing bug: class ids taken from the unfiltered rows, without [mask]
FilterClassIdsUnmasked(pred, thr) ==
    LET rows == pred.rows
        bx == [r \in DOMAIN rows |-> SubSeq(rows[r], 1, 4)]
        sc == [r \in DOMAIN rows |-> Sigmoid(rows[r][5])]
        sel == Selected(Mask(sc, thr))
        fb == Take(bx, sel)
        fs == Take(sc, sel)
    IN  IF HasClasses(pred.width)
        THEN [raised |-> FALSE, rows |-> sel, boxes |-> fb, scores |-> fs,
              class_ids |->
                [k \in DOMAIN fb |-> ArgMax(SubSeq(rows[k], 6, pred.width))]]
        ELSE [raised |-> FALSE, rows |-> sel, boxes |-> fb, scores |-> fs,
              class_ids |-> [k \in DOMAIN fb |-> 0]]

\* lines 99-113: decode, filter, class ids.  np.argmax raises ValueError
\* when the axis it reduces is empty.
Filter(pred, thr) ==
    LET rows == pred.rows
        bx == [r \in DOMAIN rows |-> SubSeq(rows[r], 1, 4)]
        sc == [r \in DOMAIN rows |-> Sigmoid(rows[r][5])]
        sel == Selected(Mask(sc, thr))
        fb == Take(bx, sel)
        fs == Take(sc, sel)
    IN  IF HasClasses(pred.width)
        THEN IF pred.width - 5 = 0
             THEN [raised |-> TRUE, rows |-> sel, boxes |-> fb, scores |-> fs,
                   class_ids |-> << >>]
             ELSE [raised |-> FALSE, rows |-> sel, boxes |-> fb, scores |-> fs,
                   class_ids |->
                     [k \in DOMAIN fb |->
                        ArgMax(SubSeq(rows[sel[k + 1]], 6, pred.width))]]
        ELSE [raised |-> FALSE, rows |-> sel, boxes |-> fb, scores |-> fs,
              class_ids |-> [k \in DOMAIN fb |-> 0]]

----------------------------------------------------------------------------
(* Inputs *)

\* boxes of positive, zero and negative area.  The first three overlap with
\* IoU 2/3 (first and second), 1/2 (first and third) and 3/4 (second and
\* third); the fourth is disjoint from them; the fifth has zero area; the
\* last has x2 < x1 and area -4
BoxPool ==
    { <<0, 0, 2, 2>>, <<0, 0, 2, 3>>, <<0, 0, 2, 4>>, <<5, 5, 7, 7>>,
      <<1, 1, 1, 1>>, <<2, 0, 0, 2>> }

ScorePool == {800, 900, 950}

IouThresholds == { <<1, 2>>, <<0, 1>> }

\* the worked example of the specification
ExampleBoxes == Arr(<< <<0, 0, 10, 10>>, <<1, 1, 11, 11>>, <<50, 50, 60, 60>> >>)

ExampleScores == Arr(<<900, 800, 950>>)

\* two boxes that overlap with IoU 2/3 and one disjoint from both
RowBoxes == { <<0, 0, 2, 2>>, <<0, 0, 2, 3>>, <<5, 5, 7, 7>> }

Logits == {-1, 0, 1}

ClassLogits == { <<0, 1>>, <<1, 0>>, <<1, 1>> }

Rows(width) ==
    IF width = 5
    THEN {b \o <<l>> : b \in RowBoxes, l \in Logits}
    ELSE {b \o <<l>> \o c : b \in RowBoxes, l \in Logits, c \in ClassLogits}

Predictions ==
    UNION { { [rows |-> rs, width |-> wd] : rs \in [0 .. m - 1 -> Rows(wd)] } :
            m \in 0 .. MaxRows, wd \in {5, 7} }

ScoreThresholds == {250, 500}

NoFilter == [raised |-> FALSE, rows |-> << >>, boxes |-> << >>,
             scores |-> << >>, class_ids |-> << >>]

NoResult == [status |-> "none", boxes |-> << >>, scores |-> << >>,
             class_ids |-> << >>]

NoFirst == [boxes |-> << >>, scores |-> << >>, keep |-> << >>]

NoPrediction == [rows |-> << >>, width |-> 5]

----------------------------------------------------------------------------
(* The calls *)

InitNms ==
    /\ call = "nms"
    /\ \/ /\ \E n \in 0 .. MaxN :
               /\ boxes \in [0 .. n - 1 -> BoxPool]
               /\ scores \in [0 .. n - 1 -> ScorePool]
          /\ iou_threshold \in IouThresholds
       \/ /\ boxes = ExampleBoxes
          /\ scores = ExampleScores
          /\ iou_threshold = <<1, 2>>
    /\ prediction = NoPrediction
    /\ threshold = 500
    /\ pc = "nms_entry"

InitPost ==
    /\ call = "post_process"
    /\ prediction \in Predictions
    /\ threshold \in ScoreThresholds
    /\ boxes = << >>
    /\ scores = << >>
    /\ iou_threshold = <<1, 2>>
    /\ pc = "post_entry"

NoSummary == [written |-> FALSE, total_images |-> 0, total_cells |-> 0,
              results |-> << >>]

\* main is not running
MainIdle ==
    /\ load_ok = TRUE
    /\ image_paths = << >>
    /\ main_pc = "idle"
    /\ next_image = 1
    /\ results = << >>
    /\ log = << >>
    /\ done_steps = {}
    /\ summary = NoSummary

NoImage == [h |-> 0, w |-> 0, px |-> << >>]

\* enhance_small_cells is not running
EnhIdle ==
    /\ image = NoImage
    /\ image_at_call = NoImage
    /\ cell_size_threshold = <<5, 1000>>
    /\ labels = << >>
    /\ small_labels = {}
    /\ small_cells_mask = {}
    /\ combined_mask = {}
    /\ enhanced_img = NoImage
    /\ enh_pc = "idle"

Init ==
    /\ InitNms \/ InitPost
    /\ MainIdle
    /\ EnhIdle
    /\ filtered = NoFilter
    /\ result = NoResult
    /\ order = << >>
    /\ keep = << >>
    /\ run = 1
    /\ first = NoFirst

\* post_process, lines 99-116: up to the call of nms
PostFilter ==
    /\ pc = "post_entry"
    /\ LET f == Filter(prediction, threshold)
       IN  /\ filtered' = f
           /\ IF f.raised
              THEN /\ result' = [NoResult EXCEPT !.status = "ValueError"]
                   /\ pc' = "done"
                   /\ UNCHANGED <<boxes, scores>>
              ELSE /\ result' = result
                   /\ pc' = "nms_entry"
                   /\ boxes' = f.boxes
                   /\ scores' = f.scores
    /\ iou_threshold' = <<1, 2>>
    /\ UNCHANGED <<call, prediction, threshold, order, keep, run, first>>
    /\ UNCHANGED <<mainVars, enhVars>>

\* nms, lines 135-152
NmsEntry ==
    /\ pc = "nms_entry"
    /\ keep' = << >>
    /\ IF Size(boxes) = 0
       THEN /\ order' = << >>
            /\ pc' = "nms_ret"
       ELSE /\ order' = ArgsortDesc(scores)
            /\ pc' = "nms_loop"
    /\ UNCHANGED <<call, prediction, threshold, filtered, result, boxes,
                   scores, iou_threshold, run, first>>
    /\ UNCHANGED <<mainVars, enhVars>>

\* nms, lines 155-180: one iteration of the while loop
NmsIter ==
    /\ pc = "nms_loop"
    /\ Len(order) > 0
    /\ keep' = Append(keep, order[1])
    /\ order' = Survivors(boxes, order, iou_threshold)
    /\ UNCHANGED <<call, prediction, threshold, filtered, result, boxes,
                   scores, iou_threshold, pc, run, first>>
    /\ UNCHANGED <<mainVars, enhVars>>

\* nms, line 182
NmsReturn ==
    /\ pc = "nms_loop"
    /\ Len(order) = 0
    /\ pc' = "nms_ret"
    /\ UNCHANGED <<call, prediction, threshold, filtered, result, boxes,
                   scores, iou_threshold, order, keep, run, first>>
    /\ UNCHANGED <<mainVars, enhVars>>

\* post_process, lines 118-122
PostReturn ==
    /\ pc = "nms_ret"
    /\ call = "post_process"
    /\ result' = [status |-> "returned",
                  boxes |-> Take(filtered.boxes, keep),
                  scores |-> Take(filtered.scores, keep),
                  class_ids |-> Take(filtered.class_ids, keep)]
    /\ pc' = "done"
    /\ UNCHANGED <<call, prediction, threshold, filtered, boxes, scores,
                   iou_threshold, order, keep, run, first>>
    /\ UNCHANGED <<mainVars, enhVars>>

\* nms called again on the boxes and scores it kept: boxes[K], scores[K]
NmsAgain ==
    /\ pc = "nms_ret"
    /\ call = "nms"
    /\ run = 1
    /\ first' = [boxes |-> boxes, scores |-> scores, keep |-> keep]
    /\ boxes' = Take(boxes, keep)
    /\ scores' = Take(scores, keep)
    /\ run' = 2
    /\ pc' = "nms_entry"
    /\ UNCHANGED <<call, prediction, threshold, filtered, result,
                   iou_threshold, order, keep>>
    /\ UNCHANGED <<mainVars, enhVars>>

Next ==
    \/ PostFilter
    \/ NmsEntry
    \/ NmsIter
    \/ NmsReturn
    \/ PostReturn
    \/ NmsAgain

Spec == Init /\ [][Next]_vars

----------------------------------------------------------------------------
(* main, detect.py: model loading, the batch loop, the summary *)

\* what process_single_image comes to for one image: preprocess_image raises
\* (cv2.imread returned None), the model raises, or it returns with count
\* detections
Fates ==
    { [outcome |-> "unreadable", count |-> 0],
      [outcome |-> "inference_raises", count |-> 0] }
    \cup { [outcome |-> "returns", count |-> c] : c \in 0 .. MaxCells }

\* the steps of process_single_image carried out on image i before it
\* returns or raises
StepsOf(i, fate) ==
    CASE fate.outcome = "unreadable" -> { <<"call", i>> }
      [] fate.outcome = "inference_raises" ->
            { <<"call", i>>, <<"preprocess", i>> }
      [] OTHER ->
            { <<"call", i>>, <<"preprocess", i>>, <<"infer", i>>,
              <<"render", i>> }

RECURSIVE SumCounts(_, _)
\* sum(r['count'] for r in results.values())
SumCounts(res, names) ==
    IF names = {} THEN 0
    ELSE LET n == CHOOSE x \in names : TRUE
         IN  res[n] + SumCounts(res, names \ {n})

\* a control-flow bug: the except branch of load_model without its return
AfterLoadFailureFallsThrough == "loop"

\* line 353: return
AfterLoadFailure == "done"

\* line 397: 'total_images': len(image_paths)
TotalImages(paths, res) == Len(paths)

InitMain ==
    /\ load_ok \in BOOLEAN
    /\ \E n \in 0 .. MaxImages : image_paths \in [1 .. n -> Fates]
    /\ main_pc = "load"
    /\ next_image = 1
    /\ results = << >>
    /\ log = << >>
    /\ done_steps = {}
    /\ summary = NoSummary

\* post_process and nms are not running on their own
NmsIdle ==
    /\ call = "none"
    /\ prediction = NoPrediction
    /\ threshold = 500
    /\ filtered = NoFilter
    /\ result = NoResult
    /\ boxes = << >>
    /\ scores = << >>
    /\ iou_threshold = <<1, 2>>
    /\ order = << >>
    /\ keep = << >>
    /\ pc = "idle"
    /\ run = 1
    /\ first = NoFirst

\* lines 347-350: load_model returns
LoadModelReturns ==
    /\ main_pc = "load"
    /\ load_ok
    /\ main_pc' = "loop"
    /\ UNCHANGED <<load_ok, image_paths, next_image, results, log,
                   done_steps, summary>>
    /\ UNCHANGED <<nmsVars, enhVars>>

\* lines 351-353: load_model raises
LoadModelRaises ==
    /\ main_pc = "load"
    /\ ~ load_ok
    /\ log' = Append(log, <<"load_failed", 0>>)
    /\ main_pc' = AfterLoadFailure
    /\ UNCHANGED <<load_ok, image_paths, next_image, results, done_steps,
                   summary>>
    /\ UNCHANGED <<nmsVars, enhVars>>

\* lines 367-387: one pass of the for loop, its try and its except
ProcessImage ==
    /\ main_pc = "loop"
    /\ next_image <= Len(image_paths)
    /\ LET i == next_image
           fate == image_paths[i]
       IN  /\ done_steps' = done_steps \cup StepsOf(i, fate)
           /\ IF fate.outcome = "returns"
              THEN /\ results' = [n \in DOMAIN results \cup {i} |->
                                     IF n = i THEN fate.count ELSE results[n]]
                   /\ log' = log
              ELSE /\ results' = results
                   /\ log' = Append(log, <<"image_failed", i>>)
    /\ next_image' = next_image + 1
    /\ UNCHANGED <<load_ok, image_paths, main_pc, summary>>
    /\ UNCHANGED <<nmsVars, enhVars>>

\* lines 389-406: the summary, after the last image
WriteSummary ==
    /\ main_pc = "loop"
    /\ next_image > Len(image_paths)
    /\ summary' = [written |-> TRUE,
                   total_images |-> TotalImages(image_paths, results),
                   total_cells |-> SumCounts(results, DOMAIN results),
                   results |-> results]
    /\ main_pc' = "done"
    /\ UNCHANGED <<load_ok, image_paths, next_image, results, log,
                   done_steps>>
    /\ UNCHANGED <<nmsVars, enhVars>>

NextMain ==
    \/ LoadModelReturns
    \/ LoadModelRaises
    \/ ProcessImage
    \/ WriteSummary

MainInit == InitMain /\ NmsIdle /\ EnhIdle

SpecMain == MainInit /\ [][NextMain]_vars

----------------------------------------------------------------------------
(* enhance_small_cells, enhance/small_cell.py.  An image is its height, its *)
(* width and a pixel <<R, G, B>> at each <<y, x>>; a mask is the set of its *)
(* non-zero pixels.                                                         *)

Pixels(h, w) == (0 .. h - 1) \X (0 .. w - 1)

Abs(n) == IF n < 0 THEN -n ELSE n

SetMin(S) == CHOOSE m \in S : \A n \in S : m <= n

SetMax(S) == CHOOSE m \in S : \A n \in S : m >= n

\* cv2.cvtColor(image, cv2.COLOR_RGB2GRAY): 0.299 R + 0.587 G + 0.114 B,
\* rounded
Gray(p) == (299 * p[1] + 587 * p[2] + 114 * p[3] + 500) \div 1000

\* cell_pixel_threshold = int(min_dim * cell_size_threshold)
CellPixelThreshold(h, w, t) == (Min2(h, w) * t[1]) \div t[2]

\* what cv2.adaptiveThreshold (Gaussian mean, THRESH_BINARY_INV, C = 2) can
\* turn on: a pixel at least 2 below the weighted mean of its window, hence
\* strictly darker than some pixel of the image
CanBeForeground(img, p) ==
    \E q \in DOMAIN img.px : Gray(img.px[p]) < Gray(img.px[q])

\* 8-connectivity, the default of cv2.connectedComponentsWithStats
Adjacent(p, q) == Abs(p[1] - q[1]) <= 1 /\ Abs(p[2] - q[2]) <= 1

\* where cv2.Canny can mark an edge: at a pixel whose 3x3 window (that of
\* the Sobel gradient) is not of one gray value
EdgeCandidates(img) ==
    {p \in DOMAIN img.px :
        \E q \in DOMAIN img.px :
            Adjacent(p, q) /\ Gray(img.px[q]) # Gray(img.px[p])}

RECURSIVE Reach(_, _)
Reach(S, F) ==
    LET N == S \cup {q \in F : \E p \in S : Adjacent(p, q)}
    IN  IF N = S THEN S ELSE Reach(N, F)

\* raster position of a pixel
Raster(p, w) == p[1] * w + p[2]

\* labels as cv2.connectedComponentsWithStats gives them: label 0 is the
\* background, labels 1.. the components of the foreground F in raster order
\* of their first pixel
Labelled(F, h, w) ==
    LET comps == {Reach({p}, F) : p \in F}
        First(c) == SetMin({Raster(p, w) : p \in c})
        Rank(c) == Cardinality({d \in comps : First(d) < First(c)})
    IN  [i \in 0 .. Cardinality(comps) |->
            IF i = 0 THEN Pixels(h, w) \ F
            ELSE CHOOSE c \in comps : Rank(c) = i - 1]

\* stats[i, cv2.CC_STAT_WIDTH]
StatWidth(c) ==
    IF c = {} THEN 0
    ELSE SetMax({p[2] : p \in c}) - SetMin({p[2] : p \in c}) + 1

\* stats[i, cv2.CC_STAT_HEIGHT]
StatHeight(c) ==
    IF c = {} THEN 0
    ELSE SetMax({p[1] : p \in c}) - SetMin({p[1] : p \in c}) + 1

\* a comparison bug: a component as large as the threshold counted as small
IsSmallLeq(c, thr) == Max2(StatWidth(c), StatHeight(c)) <= thr

\* line 48: max(width, height) < cell_pixel_threshold
IsSmall(c, thr) == Max2(StatWidth(c), StatHeight(c)) < thr

\* cv2.dilate with a 3x3 kernel of ones
Dilate3(S, h, w) ==
    {q \in Pixels(h, w) : \E p \in S : Adjacent(p, q)}

\* cv2.dilate with a 2x2 kernel of ones, anchored at its cell (1, 1): a pixel
\* is set when the source is set there, to its left, above, or above left
Dilate2(S, h, w) ==
    {q \in Pixels(h, w) :
        \E p \in S : q[1] - p[1] \in {0, 1} /\ q[2] - p[2] \in {0, 1}}

\* the non-zero pixels of cv2.GaussianBlur(mask, (3, 3), 0) of a 0/255 mask:
\* every pixel with a set pixel in its 3x3 window
BlurSupport(S, h, w) == Dilate3(S, h, w)

\* range(1, num_labels): the labels of the loop of line 43
LoopLabels(lab) == DOMAIN lab \ {0}

\* lines 43-48: the labels of the loop that pass the test of line 48
SmallLabels(lab, thr) == {l \in LoopLabels(lab) : IsSmall(lab[l], thr)}

\* lines 41-62: the small-cell mask, from the labels lab
SmallCellsMask(lab, h, w, thr) ==
    UNION { Dilate3(lab[i], h, w) : i \in SmallLabels(lab, thr) }

\* lines 65-70: the combined mask of the small-cell mask scm and the edges E,
\* blurred
CombinedMask(scm, E, h, w) == BlurSupport(scm \cup Dilate2(E, h, w), h, w)

\* a slicing bug: the splice starts one column early
RoiOneColumnEarly(mask, h, w) ==
    IF mask = {} THEN {}
    ELSE LET min_y == SetMin({p[1] : p \in mask})
             max_y == SetMax({p[1] : p \in mask})
             min_x == SetMin({p[2] : p \in mask})
             max_x == SetMax({p[2] : p \in mask})
         IN  IF min_y < max_y /\ min_x < max_x
             THEN {p \in Pixels(h, w) :
                     /\ min_y <= p[1] /\ p[1] <= max_y
                     /\ min_x - 1 <= p[2] /\ p[2] <= max_x}
             ELSE {}

\* lines 76-84 and 103: the pixels enhanced_img[min_y:max_y+1, min_x:max_x+1]
\* that are written, none when the mask is empty or the rectangle is a
\* single row or column
Roi(mask, h, w) ==
    IF mask = {} THEN {}
    ELSE LET min_y == SetMin({p[1] : p \in mask})
             max_y == SetMax({p[1] : p \in mask})
             min_x == SetMin({p[2] : p \in mask})
             max_x == SetMax({p[2] : p \in mask})
         IN  IF min_y < max_y /\ min_x < max_x
             THEN {p \in Pixels(h, w) :
                     /\ min_y <= p[1] /\ p[1] <= max_y
                     /\ min_x <= p[2] /\ p[2] <= max_x}
             ELSE {}

Black == <<0, 0, 0>>

White == <<255, 255, 255>>

Red == <<255, 0, 0>>

PixelValues == {Black, White, Red}

\* what lines 87-100 (LAB, CLAHE, sharpening, back to RGB) can make of the
\* pixels of the region: three channels each, the values left open
ToneMaps ==
    { [v \in PixelValues |-> v],
      [v \in PixelValues |-> White],
      [v \in PixelValues |-> IF v = Black THEN White ELSE Black] }

\* flat images, and images with one pixel unlike the others
Images ==
    UNION { { [h |-> h, w |-> w,
               px |-> [p \in Pixels(h, w) |-> IF p \in spot THEN v ELSE b]] :
                b \in PixelValues, v \in PixelValues,
                spot \in { {} } \cup { {p} : p \in Pixels(h, w) } } :
            h \in 1 .. MaxDim, w \in 1 .. MaxDim }

SizeThresholds == { <<5, 1000>>, <<3, 4>>, <<1, 1>> }

\* the subsets of S with at most two elements
UpToTwo(S) == { {} } \cup { {p, q} : p \in S, q \in S }

InitEnhance ==
    /\ image \in Images
    /\ image_at_call = image
    /\ cell_size_threshold \in SizeThresholds
    /\ labels = << >>
    /\ small_labels = {}
    /\ small_cells_mask = {}
    /\ combined_mask = {}
    /\ enhanced_img = NoImage
    /\ enh_pc = "call"

\* an aliasing bug: enhanced_img = image, without the copy
WrittenThroughToInput(img, out) == out

\* line 73: enhanced_img = image.copy(), so the caller's array stays as it is
CallerArrayAfter(img, out) == img

\* enhance_small_cells, lines 23-105
EnhanceSmallCells ==
    /\ enh_pc = "call"
    /\ \E F \in UpToTwo({p \in Pixels(image.h, image.w) :
                            CanBeForeground(image, p)}) :
         \E thr \in { CellPixelThreshold(image.h, image.w,
                                          cell_size_threshold) } :
           \E lab \in { Labelled(F, image.h, image.w) } :
             \E scm \in { SmallCellsMask(lab, image.h, image.w, thr) } :
               /\ labels' = lab
               /\ small_labels' = SmallLabels(lab, thr)
               /\ small_cells_mask' = scm
               /\ \E E \in { {} } \cup { {p} : p \in EdgeCandidates(image) } :
                    \E mask \in { CombinedMask(scm, E, image.h, image.w) } :
                      \E roi \in { Roi(mask, image.h, image.w) } :
                        \E tone \in ToneMaps :
                          /\ combined_mask' = mask
                          /\ enhanced_img' =
                                 [image EXCEPT !.px =
                                    [p \in Pixels(image.h, image.w) |->
                                        IF p \in roi THEN tone[image.px[p]]
                                        ELSE image.px[p]]]
                          /\ image' = CallerArrayAfter(image, enhanced_img')
    /\ enh_pc' = "returned"
    /\ UNCHANGED <<image_at_call, cell_size_threshold>>
    /\ UNCHANGED <<nmsVars, mainVars>>

NextEnhance == EnhanceSmallCells

EnhanceInit == InitEnhance /\ NmsIdle /\ MainIdle

SpecEnhance == EnhanceInit /\ [][NextEnhance]_vars

\* scores for the runs of the loop alone: a tie and a strict order
LoopScorePool == {800, 900}

\* a call of nms on its own
LoopInit ==
    /\ call = "nms"
    /\ \E n \in 0 .. MaxN :
           /\ boxes \in [0 .. n - 1 -> BoxPool]
           /\ scores \in [0 .. n - 1 -> LoopScorePool]
    /\ iou_threshold \in IouThresholds
    /\ prediction = NoPrediction
    /\ threshold = 500
    /\ pc = "nms_entry"
    /\ filtered = NoFilter
    /\ result = NoResult
    /\ order = << >>
    /\ keep = << >>
    /\ run = 1
    /\ first = NoFirst
    /\ MainIdle
    /\ EnhIdle

NextLoop ==
    \/ NmsEntry
    \/ NmsIter
    \/ NmsReturn

\* the while loop of nms runs in one thread: once nms is entered, the
\* interpreter takes its next step, an iteration or the return
SpecLoop == LoopInit /\ [][NextLoop]_vars /\ WF_vars(NextLoop)

----------------------------------------------------------------------------
(* Properties of nms and post_process *)

InNms == pc \in {"nms_loop", "nms_ret", "done"}

Returned == pc = "nms_ret"

Identity(n) == [k \in 1 .. n |-> k - 1]

\* position of index i in a list that holds it
PosIn(list, i) == CHOOSE p \in DOMAIN list : list[p] = i

\* C1: no two distinct entries of the keep list are boxes whose IoU is
\* strictly greater than iou_threshold
C1_NoKeptPairOverlaps ==
    InNms =>
        \A p, q \in DOMAIN keep :
            p # q => ~ FloatGt(IoU(boxes[keep[p]], boxes[keep[q]]),
                               iou_threshold)

\* nms returned at least two boxes and suppressed at least one
C1_Witness ==
    /\ Returned
    /\ run = 1
    /\ Len(keep) >= 2
    /\ Len(keep) < Size(boxes)

\* C2: the keep list holds indices of 0..N-1 only, none twice, in
\* non-increasing score order, the highest score of all first; the worked
\* example returns exactly [2, 0]
C2_KeepSortedByScore ==
    Returned =>
        /\ Range(keep) \subseteq 0 .. Size(boxes) - 1
        /\ \A p, q \in DOMAIN keep : p # q => keep[p] # keep[q]
        /\ \A p \in 1 .. Len(keep) - 1 : scores[keep[p]] >= scores[keep[p + 1]]
        /\ Size(boxes) > 0 =>
               /\ Len(keep) > 0
               /\ \A j \in DOMAIN scores : scores[keep[1]] >= scores[j]
        /\ (run = 1 /\ boxes = ExampleBoxes /\ scores = ExampleScores) =>
               keep = <<2, 0>>

\* the worked example has returned
C2_Witness ==
    /\ Returned
    /\ run = 1
    /\ boxes = ExampleBoxes
    /\ scores = ExampleScores
    /\ keep = <<2, 0>>

\* C3 as claimed: nms on the kept boxes returns 0..|K|-1, in that order
C3_RerunSameOrder ==
    (Returned /\ run = 2) => keep = Identity(Len(first.keep))

KeptScoresDistinct ==
    \A p, q \in DOMAIN first.keep :
        p # q => first.scores[first.keep[p]] # first.scores[first.keep[q]]

\* C3: nms on the kept boxes keeps every one of them, each once; they come
\* back in the same order, 0..|K|-1, when no two kept scores are equal
C3_RerunKeepsAll ==
    (Returned /\ run = 2) =>
        /\ Len(keep) = Len(first.keep)
        /\ Range(keep) = 0 .. Len(first.keep) - 1
        /\ KeptScoresDistinct => keep = Identity(Len(first.keep))

\* the second run returned, on a first run that kept several boxes of
\* distinct scores and suppressed another
C3_Witness ==
    /\ Returned
    /\ run = 2
    /\ Len(first.keep) >= 2
    /\ Len(first.keep) < Size(first.boxes)
    /\ KeptScoresDistinct

Confidence(r) == Sigmoid(prediction.rows[r][5])

\* the prediction rows behind the returned positions
ReturnedRows == Take(Arr(filtered.rows), keep)

\* C4: a row passes the score filter iff its confidence is strictly above
\* the threshold; a row at the threshold is not in the output, and every
\* returned score is above it
C4_StrictScoreFilter ==
    /\ (call = "post_process" /\ pc # "post_entry") =>
           Range(filtered.rows) =
               {r \in DOMAIN prediction.rows : Confidence(r) > threshold}
    /\ result.status = "returned" =>
           /\ \A k \in DOMAIN result.scores : result.scores[k] > threshold
           /\ \A r \in DOMAIN prediction.rows :
                  Confidence(r) = threshold =>
                      \A k \in DOMAIN ReturnedRows : ReturnedRows[k] # r

\* post_process returned detections from a prediction with a row at the
\* threshold
C4_Witness ==
    /\ result.status = "returned"
    /\ Size(result.scores) > 0
    /\ \E r \in DOMAIN prediction.rows : Confidence(r) = threshold

BothZeroArea(i, j) == Area(boxes[i]) = 0 /\ Area(boxes[j]) = 0

IterStep == pc = "nms_loop" /\ Len(order) > 0 /\ keep' # keep

\* C5: a remaining zero-area box compared with a selected zero-area box is
\* not suppressed by that comparison: it is still in order afterwards
C5_ZeroAreaPairNotSuppressed ==
    [][IterStep =>
          \A p \in 2 .. Len(order) :
              BothZeroArea(order[1], order[p]) =>
                  \E q \in DOMAIN order' : order'[q] = order[p]]_vars

NoRowPasses ==
    \A r \in DOMAIN prediction.rows : ~ (Confidence(r) > threshold)

\* C9: when no row passes the score filter, post_process returns three empty
\* sequences and raises nothing, whatever the row width; nms on no boxes
\* returns the empty list
C9_NothingPassesReturnsEmpty ==
    /\ (call = "post_process" /\ pc = "done" /\ NoRowPasses) =>
           /\ result.status = "returned"
           /\ Size(result.boxes) = 0
           /\ Size(result.scores) = 0
           /\ Size(result.class_ids) = 0
    /\ (Returned /\ Size(boxes) = 0) => Len(keep) = 0

\* post_process is done with a prediction that has class columns and rows,
\* none of which passes
C9_Witness ==
    /\ call = "post_process"
    /\ pc = "done"
    /\ NoRowPasses
    /\ prediction.width > 5
    /\ Size(prediction.rows) > 0

AtThreshold(q, t) == q[2] # 0 /\ q[1] * t[2] = t[1] * q[2]

\* C10: every index absent from the keep list has IoU > iou_threshold with a
\* kept index that precedes it in score order, and a box whose IoU with the
\* selected box equals iou_threshold is not discarded by that comparison
C10_DiscardedOnlyByOverlap ==
    /\ [](Returned =>
            \A j \in DOMAIN boxes :
                j \notin Range(keep) =>
                    \E i \in Range(keep) :
                        /\ PosIn(ArgsortDesc(scores), i)
                             < PosIn(ArgsortDesc(scores), j)
                        /\ FloatGt(IoU(boxes[i], boxes[j]), iou_threshold))
    /\ [][IterStep =>
            \A p \in 2 .. Len(order) :
                AtThreshold(IoU(boxes[order[1]], boxes[order[p]]),
                            iou_threshold) =>
                    \E q \in DOMAIN order' : order'[q] = order[p]]_vars

----------------------------------------------------------------------------
(* Properties of main *)

Failed(i) == image_paths[i].outcome # "returns"

Succeeded == {i \in DOMAIN image_paths : ~ Failed(i)}

\* C6: an image whose processing raises is caught; every later image is
\* still processed; the failed image has no entry in results and adds
\* nothing to total_cells or total_images of the written summary
C6_FailedImageExcludedFromSummary ==
    summary.written =>
        /\ \A i \in DOMAIN image_paths : <<"call", i>> \in done_steps
        /\ DOMAIN summary.results = Succeeded
        /\ summary.total_cells = SumCounts([i \in Succeeded |->
                                               image_paths[i].count], Succeeded)
        /\ summary.total_images = Cardinality(Succeeded)

\* C7: when load_model raises, the failure is reported exactly once, the run
\* ends at once, no image is preprocessed, inferred or rendered, and no
\* summary is written
C7_LoadFailureEndsRun ==
    (~ load_ok /\ main_pc # "load") =>
        /\ main_pc = "done"
        /\ log = << <<"load_failed", 0>> >>
        /\ done_steps = {}
        /\ ~ summary.written

\* load_model raised with images waiting
C7_Witness ==
    /\ ~ load_ok
    /\ main_pc = "done"
    /\ Len(image_paths) > 0

----------------------------------------------------------------------------
(* Properties of enhance_small_cells *)

\* the tight bounding rectangle of a set of pixels
TightRectangle(S) ==
    {p \in Pixels(image_at_call.h, image_at_call.w) :
        /\ \E a \in S : a[1] <= p[1]
        /\ \E a \in S : a[1] >= p[1]
        /\ \E a \in S : a[2] <= p[2]
        /\ \E a \in S : a[2] >= p[2]}

Flat(img) == \A p, q \in DOMAIN img.px : img.px[p] = img.px[q]

\* C8: the returned image has the height, width and channel count of the
\* input; every pixel outside the tight bounding rectangle of the non-zero
\* pixels of the accumulator mask equals the input pixel; an empty mask (as
\* for a flat image) returns the input everywhere; the input array is not
\* modified
C8_OnlyMaskRectangleChanges ==
    enh_pc = "returned" =>
        /\ enhanced_img.h = image_at_call.h
        /\ enhanced_img.w = image_at_call.w
        /\ DOMAIN enhanced_img.px = DOMAIN image_at_call.px
        /\ \A p \in DOMAIN enhanced_img.px :
               Len(enhanced_img.px[p]) = Len(image_at_call.px[p])
        /\ \A p \in DOMAIN enhanced_img.px :
               p \notin TightRectangle(combined_mask) =>
                   enhanced_img.px[p] = image_at_call.px[p]
        /\ Flat(image_at_call) => combined_mask = {}
        /\ combined_mask = {} => enhanced_img = image_at_call
        /\ image = image_at_call

\* a call that changed a pixel inside the rectangle and left pixels outside
\* it
C8_Witness ==
    /\ enh_pc = "returned"
    /\ \E p \in DOMAIN enhanced_img.px :
           enhanced_img.px[p] # image_at_call.px[p]
    /\ \E p \in DOMAIN enhanced_img.px :
           p \notin TightRectangle(combined_mask)

----------------------------------------------------------------------------
(* Row provenance of post_process's output *)

\* the class logits of prediction row r, columns 5..
ClassColumns(r) == SubSeq(prediction.rows[r], 6, prediction.width)

\* c is the arg-max index of the sequence v: the first index of its maximum
IsArgMaxIndex(c, v) ==
    /\ c \in 0 .. Len(v) - 1
    /\ \A m \in 1 .. Len(v) : v[m] <= v[c + 1]
    /\ \A m \in 1 .. c : v[m] < v[c + 1]

\* C11: every position k of post_process's output comes from one prediction
\* row r_k: boxes[k] is columns 0..3 of r_k, scores[k] is sigmoid of its
\* column 4, class_ids[k] is the arg-max index over its columns 5.. when the
\* width exceeds 5 and 0 otherwise; no row is returned twice, and positions
\* run from the highest score down, in the order nms returns
C11_OutputRowsAligned ==
    result.status = "returned" =>
        /\ DOMAIN result.boxes = 0 .. Len(keep) - 1
        /\ DOMAIN result.scores = 0 .. Len(keep) - 1
        /\ DOMAIN result.class_ids = 0 .. Len(keep) - 1
        /\ \A k \in 0 .. Len(keep) - 1 :
             LET r == ReturnedRows[k]
             IN  /\ r \in DOMAIN prediction.rows
                 /\ result.boxes[k] = SubSeq(prediction.rows[r], 1, 4)
                 /\ result.scores[k] = Sigmoid(prediction.rows[r][5])
                 /\ IF prediction.width > 5
                    THEN IsArgMaxIndex(result.class_ids[k], ClassColumns(r))
                    ELSE result.class_ids[k] = 0
        /\ \A k \in 0 .. Len(keep) - 1, m \in 0 .. Len(keep) - 1 :
             k < m => /\ ReturnedRows[k] # ReturnedRows[m]
                      /\ result.scores[k] >= result.scores[m]

\* two rows returned, out of the order of the prediction, with unlike class
\* ids and unlike scores
C11_Witness ==
    /\ result.status = "returned"
    /\ prediction.width > 5
    /\ Size(result.boxes) = 2
    /\ ReturnedRows[0] > ReturnedRows[1]
    /\ result.class_ids[0] # result.class_ids[1]
    /\ result.scores[0] > result.scores[1]

----------------------------------------------------------------------------
(* Termination of the nms loop *)

InLoop == pc = "nms_loop"

\* C12: the nms loop terminates: each iteration takes the selected head
\* index, and nothing new, out of the remaining order, so the remaining order
\* strictly shrinks; kept and remaining indices together never exceed the N
\* boxes; the loop is left with nothing remaining and at most N kept, after
\* at most N iterations (one index is kept per iteration)
C12_NmsLoopTerminates ==
    /\ [][IterStep =>
             /\ Len(order') < Len(order)
             /\ \A q \in DOMAIN order' : order'[q] # order[1]
             /\ Range(order') \subseteq Range(order)
             /\ Len(keep') = Len(keep) + 1]_vars
    /\ [](InLoop => Len(keep) + Len(order) <= Size(boxes))
    /\ [](Returned => Len(order) = 0 /\ Len(keep) <= Size(boxes))
    /\ (InLoop ~> Returned)

\* the loop was left after as many iterations as there are boxes, MaxN of
\* them
C12_Witness == Returned /\ Size(boxes) = MaxN /\ Len(keep) = MaxN

----------------------------------------------------------------------------
(* Which components enhance_small_cells takes as small *)

\* floor(min(image_height, image_width) * cell_size_threshold)
PixelThreshold ==
    LET m == Min2(image_at_call.h, image_at_call.w)
        t == cell_size_threshold
    IN  CHOOSE n \in 0 .. m * t[1] :
            n * t[2] <= m * t[1] /\ m * t[1] < (n + 1) * t[2]

\* max(width, height) of a connected component: its columns, and its rows,
\* are consecutive, so either extent is their number
Extent(c) == Max2(Cardinality({p[2] : p \in c}), Cardinality({p[1] : p \in c}))

\* the pixels of the image within one pixel of p
Near(p) == {q \in Pixels(image_at_call.h, image_at_call.w) : Adjacent(p, q)}

\* C13: a component of label >= 1 goes into the small-cell mask if and only
\* if max(width, height) < floor(min(image_height, image_width) *
\* cell_size_threshold); one whose max(width, height) equals that threshold
\* does not; label 0, the background, is never taken.  The mask is what the
\* components taken cover, each with the pixels around it.
C13_SmallIffBelowThreshold ==
    enh_pc = "returned" =>
        /\ \A i \in DOMAIN labels :
               i >= 1 => (i \in small_labels <=>
                              Extent(labels[i]) < PixelThreshold)
        /\ \A i \in DOMAIN labels :
               (i >= 1 /\ Extent(labels[i]) = PixelThreshold) =>
                   /\ i \notin small_labels
                   /\ labels[i] \cap small_cells_mask = {}
        /\ 0 \notin small_labels
        /\ small_labels \subseteq DOMAIN labels
        /\ small_cells_mask =
               UNION { UNION { Near(p) : p \in labels[i] } :
                       i \in small_labels }

\* a call that found a component exactly as large as the threshold
C13_Witness ==
    /\ enh_pc = "returned"
    /\ PixelThreshold >= 2
    /\ \E i \in DOMAIN labels :
           i >= 1 /\ Extent(labels[i]) = PixelThreshold

====
